---- MODULE Spec2Model ----
(***************************************************************************)
(* markdown-readtime: the estimation pass of estimate_with_speed over the  *)
(* parser's event stream, the two word counters, the f64 time synthesis    *)
(* and format_time (src/src/lib.rs).                                       *)
(*                                                                         *)
(* Characters are Unicode scalar values (integers).  Strings are sequences *)
(* of scalar values.  An f64 is modelled bit-exactly for the non-negative  *)
(* finite normal values the pass produces: a 53-bit significand (sequence  *)
(* of bits, most significant first, leading bit 1) and a binary exponent,  *)
(* with round-to-nearest-even after every operation.                       *)
(***************************************************************************)
EXTENDS Integers, Sequences, FiniteSets

\* ------------------------------------------------------------------ bounds
MaxEvents == 4
MaxLen == 3
MaxSpans == 2
MaxSeconds == 3725

\* ------------------------------------------------- program constants
\* f64 significand width (the type of base_seconds, lib.rs:149)
MantissaBits == 53

\* ---------------------------------------------------------------- characters
\* char::is_whitespace (Unicode White_Space), called at lib.rs:171
is_whitespace(c) ==
    \/ c \in 9..13
    \/ c \in {32, 133, 160, 5760, 8232, 8233, 8239, 8287, 12288}
    \/ c \in 8192..8202

\* char::is_control (general category Cc), called at lib.rs:171
is_control(c) == c \in 0..31 \/ c \in 127..159

\* CharExt::is_emoji, lib.rs:242-259 (hexadecimal ranges written in decimal)
is_emoji(c) ==
    \/ c \in 128512..128591      \* 0x1F600..=0x1F64F
    \/ c \in 127744..128511      \* 0x1F300..=0x1F5FF
    \/ c \in 128640..128767      \* 0x1F680..=0x1F6FF
    \/ c \in 128768..128895      \* 0x1F700..=0x1F77F
    \/ c \in 128896..129023      \* 0x1F780..=0x1F7FF
    \/ c \in 129024..129279      \* 0x1F800..=0x1F8FF
    \/ c \in 129280..129535      \* 0x1F900..=0x1F9FF
    \/ c \in 129536..129647      \* 0x1FA00..=0x1FA6F
    \/ c \in 129648..129791      \* 0x1FA70..=0x1FAFF
    \/ c \in 9728..9983          \* 0x2600..=0x26FF
    \/ c \in 9984..10175         \* 0x2700..=0x27BF
    \/ c = 11088                 \* 0x2B50
    \/ c = 11093                 \* 0x2B55

\* The characters of a string are its positions: chars().filter(p).count()
\* is the number of positions whose character satisfies p.

\* ------------------------------------------------------------- word counters
\* count_words with the control-character test of its emoji branch left out
count_words_NoControlTest(text, count_emoji) ==
    LET keep(c) == ~is_whitespace(c)
    IN  Cardinality({i \in 1..Len(text) : keep(text[i])})

\* count_words, lib.rs:167-177
count_words(text, count_emoji) ==
    IF count_emoji
    THEN LET keep(c) == ~is_whitespace(c) /\ (~is_control(c) \/ is_emoji(c))
         IN  Cardinality({i \in 1..Len(text) : keep(text[i])})
    ELSE LET keep(c) == ~is_whitespace(c)
         IN  Cardinality({i \in 1..Len(text) : keep(text[i])})

\* str::split_whitespace: the maximal runs of non-whitespace characters, in
\* order, found by one scan from the left (cur is the run being read).
RECURSIVE SplitScan(_, _, _)
SplitScan(text, i, cur) ==
    IF i > Len(text)
    THEN IF cur = <<>> THEN <<>> ELSE <<cur>>
    ELSE IF is_whitespace(text[i])
         THEN IF cur = <<>>
              THEN SplitScan(text, i + 1, <<>>)
              ELSE <<cur>> \o SplitScan(text, i + 1, <<>>)
         ELSE SplitScan(text, i + 1, Append(cur, text[i]))

split_whitespace(text) == SplitScan(text, 1, <<>>)

\* the closure counting the non-emoji part of an emoji-bearing word as one
WordUnits_RestAsOne(word) ==
    LET emoji_count == Cardinality({i \in 1..Len(word) : is_emoji(word[i])})
    IN  IF emoji_count > 0 THEN emoji_count + 1 ELSE 1

\* the closure of the map at lib.rs:184-199
WordUnits(word) ==
    LET emoji_count == Cardinality({i \in 1..Len(word) : is_emoji(word[i])})
        plain(c) == ~is_emoji(c) /\ ~is_whitespace(c)
        non_emoji_chars == Cardinality({i \in 1..Len(word) : plain(word[i])})
    IN  IF emoji_count > 0 THEN non_emoji_chars + emoji_count ELSE 1

RECURSIVE SumUnits(_)
SumUnits(words) ==
    IF words = <<>> THEN 0 ELSE WordUnits(Head(words)) + SumUnits(Tail(words))

\* count_english_words, lib.rs:180-204
count_english_words(text, count_emoji) ==
    IF count_emoji
    THEN SumUnits(split_whitespace(text))
    ELSE Len(split_whitespace(text))

\* ------------------------------------------------------------------ format
\* Display of an unsigned integer inside format!, lib.rs:212-216
RECURSIVE ToDecimal(_)
ToDecimal(n) ==
    IF n < 10 THEN <<48 + n>> ELSE ToDecimal(n \div 10) \o <<48 + (n % 10)>>

\* format_time printing the whole seconds after the minutes
format_time_WholeSeconds(seconds) ==
    LET minutes == seconds \div 60
        remaining_seconds == seconds % 60
    IN  IF minutes = 0
        THEN ToDecimal(seconds) \o <<31186>>
        ELSE IF remaining_seconds = 0
             THEN ToDecimal(minutes) \o <<21010, 38047>>
             ELSE ToDecimal(minutes) \o <<21010>>
                      \o ToDecimal(seconds) \o <<31186>>

\* format_time, lib.rs:207-218.  31186 is U+79D2 (miao), 21010 is U+5206
\* (fen), 38047 is U+949F (zhong).
format_time(seconds) ==
    LET minutes == seconds \div 60
        remaining_seconds == seconds % 60
    IN  IF minutes = 0
        THEN ToDecimal(seconds) \o <<31186>>
        ELSE IF remaining_seconds = 0
             THEN ToDecimal(minutes) \o <<21010, 38047>>
             ELSE ToDecimal(minutes) \o <<21010>>
                      \o ToDecimal(remaining_seconds) \o <<31186>>

\* --------------------------------------------------------------------- f64
\* Natural numbers wider than the model's integers are bit strings, most
\* significant bit first.  The operators below avoid recursion over the bits.
Zeros(n) == [i \in 1..n |-> 0]

\* the bits of a natural n below 2^30, without leading zeros
NatBits(n) ==
    LET L == CHOOSE k \in 0..30 : n < 2^k /\ (k = 0 \/ n >= 2^(k - 1))
    IN  [i \in 1..L |-> (n \div 2^(L - i)) % 2]

\* the value of a bit string of at most 30 bits
RECURSIVE BitsNat(_)
BitsNat(b) ==
    IF b = <<>> THEN 0 ELSE 2 * BitsNat(SubSeq(b, 1, Len(b) - 1)) + b[Len(b)]

StripLead(b) ==
    LET ones == {i \in 1..Len(b) : b[i] = 1}
    IN  IF ones = {} THEN <<>>
        ELSE SubSeq(b, CHOOSE i \in ones : \A j \in ones : i <= j, Len(b))

StripTrail(b) ==
    LET ones == {i \in 1..Len(b) : b[i] = 1}
    IN  IF ones = {} THEN <<>>
        ELSE SubSeq(b, 1, CHOOSE i \in ones : \A j \in ones : i >= j)

\* b + 1: the last 0 becomes 1 and the 1s after it become 0
Incr(b) ==
    LET zs == {i \in 1..Len(b) : b[i] = 0}
    IN  IF zs = {} THEN <<1>> \o Zeros(Len(b))
        ELSE LET z == CHOOSE i \in zs : \A j \in zs : i >= j
             IN  [i \in 1..Len(b) |-> IF i < z THEN b[i] ELSE IF i = z THEN 1 ELSE 0]

\* a + b for bit strings: the carry into position i is generated at some
\* lower position k and propagated by every position between
AddBits(a0, b0) ==
    LET n == IF Len(a0) > Len(b0) THEN Len(a0) ELSE Len(b0)
        a == Zeros(n - Len(a0)) \o a0
        b == Zeros(n - Len(b0)) \o b0
        carry(i) == \E k \in (i + 1)..n :
                        /\ a[k] + b[k] = 2
                        /\ \A j \in (i + 1)..(k - 1) : a[j] + b[j] = 1
        bit(i) == (a[i] + b[i] + (IF carry(i) THEN 1 ELSE 0)) % 2
    IN  (IF carry(0) THEN <<1>> ELSE <<>>) \o [i \in 1..n |-> bit(i)]

\* b * k for a bit string b and a small natural k: shift and add over the
\* binary digits of k
RECURSIVE MulBits(_, _)
MulBits(b, k) ==
    IF k = 0 THEN <<>>
    ELSE AddBits(IF k % 2 = 1 THEN b ELSE <<>>, MulBits(b, k \div 2) \o <<0>>)

\* 8 * n binary digits of r / b after the point (0 <= r < b < 2^23), eight
\* at a time, and the remainder
RECURSIVE FracBits(_, _, _)
FracBits(r, b, n) ==
    IF n = 0 THEN [bits |-> <<>>, rem |-> r]
    ELSE LET q == (r * 256) \div b
             rest == FracBits((r * 256) % b, b, n - 1)
         IN  [bits |-> [i \in 1..8 |-> (q \div 2^(8 - i)) % 2] \o rest.bits,
              rem |-> rest.rem]

FZero == [m |-> <<>>, e |-> 0]

\* The f64 nearest to m0 * 2^e0 (plus a positive amount below one unit of m0
\* when sticky), ties to even: the rounding of every f64 operation.
RoundF(m0, e0, sticky) ==
    LET m == StripLead(m0)
        L == Len(m)
        P == MantissaBits
    IN  IF L = 0 THEN FZero
        ELSE IF L <= P THEN [m |-> m \o Zeros(P - L), e |-> e0 - (P - L)]
        ELSE LET keep == SubSeq(m, 1, P)
                 rest == sticky \/ (\E i \in (P + 2)..L : m[i] = 1)
                 up == m[P + 1] = 1 /\ (rest \/ keep[P] = 1)
                 k2 == IF up THEN Incr(keep) ELSE keep
             IN  IF Len(k2) > P
                 THEN [m |-> SubSeq(k2, 1, P), e |-> e0 + (L - P) + 1]
                 ELSE [m |-> k2, e |-> e0 + (L - P)]

\* `n as f64` for a usize n (exact below 2^53), lib.rs:149, 152, 153
FromNat(n) == RoundF(NatBits(n), 0, FALSE)

\* x = SigNat(x) * 2^SigExp(x) with SigNat(x) odd (or x = 0)
SigNat(x) == BitsNat(StripTrail(x.m))
SigExp(x) == x.e + (Len(x.m) - Len(StripTrail(x.m)))

\* x / y in f64, y > 0 (lib.rs:149): long division to 96 binary places,
\* which leaves more than 53 significant bits plus guard and sticky for
\* operands whose odd parts are below 2^23.
DivF(x, y) ==
    LET a == SigNat(x)
        b == SigNat(y)
        f == FracBits(a % b, b, 12)
    IN  RoundF(NatBits(a \div b) \o f.bits, SigExp(x) - SigExp(y) - 96, f.rem # 0)

\* x * y in f64 (lib.rs:149, 152, 153)
MulF(x, y) == RoundF(MulBits(x.m, SigNat(y)), x.e + SigExp(y), FALSE)

\* x + y in f64 (lib.rs:155)
AddF(x, y) ==
    IF x.m = <<>> THEN y
    ELSE IF y.m = <<>> THEN x
    ELSE LET e == IF x.e < y.e THEN x.e ELSE y.e
         IN  RoundF(AddBits(x.m \o Zeros(x.e - e), y.m \o Zeros(y.e - e)), e, FALSE)

\* x.floor() as u64 + 1 in place of x.ceil() as u64
CeilU64_FloorPlusOne(x) ==
    IF x.m = <<>> THEN 1
    ELSE LET ip == Len(x.m) + x.e
         IN  IF x.e >= 0 THEN BitsNat(x.m \o Zeros(x.e)) + 1
             ELSE IF ip <= 0 THEN 1
             ELSE BitsNat(SubSeq(x.m, 1, ip)) + 1

\* x.ceil() as u64 for a finite x >= 0 below 2^31 (lib.rs:155)
CeilU64(x) ==
    IF x.m = <<>> THEN 0
    ELSE LET ip == Len(x.m) + x.e
         IN  IF x.e >= 0 THEN BitsNat(x.m \o Zeros(x.e))
             ELSE IF ip <= 0 THEN 1
             ELSE BitsNat(SubSeq(x.m, 1, ip))
                  + (IF \E i \in (ip + 1)..Len(x.m) : x.m[i] = 1 THEN 1 ELSE 0)

\* lib.rs:148-155: total_seconds from the three counts and the speed.  The
\* speed's three f64 fields hold whole numbers, written as naturals.
TotalSeconds(wc, ic, cc, speed) ==
    LET base_seconds ==
            MulF(DivF(FromNat(wc), FromNat(speed.words_per_minute)), FromNat(60))
        image_seconds == MulF(FromNat(ic), FromNat(speed.seconds_per_image))
        code_seconds == MulF(FromNat(cc), FromNat(speed.seconds_per_code_block))
    IN  CeilU64(AddF(AddF(base_seconds, image_seconds), code_seconds))

\* ------------------------------------------------------------------- state
VARIABLES
    speed,              \* the ReadSpeed passed to estimate_with_speed
    word_count, image_count, code_block_count,
    in_code_block, in_image_alt,
    pc,                 \* "loop": in the for loop; "done": ReadTime returned
    total_seconds, formatted,
    ev,                 \* the kind of event the loop body handled last
    open,               \* history: the tags started and not yet ended
    n_events,           \* history: how many events the loop has handled
    seen_content,       \* history: a text, code, image or code block event came
    w_text              \* a text span under construction (word counter runs)

vars == <<speed, word_count, image_count, code_block_count, in_code_block,
          in_image_alt, pc, total_seconds, formatted, ev, open, n_events,
          seen_content, w_text>>

\* ReadSpeed::new, lib.rs:47-61
ReadSpeedNew(wpm, img, code, emoji, chinese) ==
    [words_per_minute |-> wpm, seconds_per_image |-> img,
     seconds_per_code_block |-> code, count_emoji |-> emoji, chinese |-> chinese]

\* ReadSpeed::default, lib.rs:34-44
DefaultSpeed == ReadSpeedNew(200, 12, 20, TRUE, TRUE)

\* The speeds the repository itself uses (the default, the two of
\* tests::test_estimate_with_speed, the one of examples/custom_speed.rs) and
\* the default with the builder's emoji(false) and chinese(false).
Speeds ==
    { DefaultSpeed,
      ReadSpeedNew(100, 10, 15, TRUE, TRUE),
      ReadSpeedNew(200, 10, 15, TRUE, FALSE),
      ReadSpeedNew(180, 15, 25, TRUE, TRUE),
      [DefaultSpeed EXCEPT !.count_emoji = FALSE],
      [DefaultSpeed EXCEPT !.count_emoji = FALSE, !.chinese = FALSE] }

\* The spans a text or inline code event carries: "Hi <grinning face>ok",
\* a lone BEL control character, and 31 CJK ideographs.
MixedSpan == <<72, 105, 32, 128512, 111, 107>>
BellSpan == <<7>>
LongSpan == [i \in 1..31 |-> 20320]
TextPool == {MixedSpan, BellSpan, LongSpan}

\* the characters a span under construction is built from: a, space, tab,
\* BEL, grinning face, a CJK ideograph
Chars == {97, 32, 9, 7, 128512, 20320}

\* lib.rs:128-132 and 137-141: the counter the language flag selects
SpanCount(sp, text) ==
    IF sp.chinese
    THEN count_words(text, sp.count_emoji)
    ELSE count_english_words(text, sp.count_emoji)

\* ------------------------------------------------- the parser's event stream
Top == IF open = <<>> THEN "none" ELSE open[Len(open)]
ImageOpen == \E i \in 1..Len(open) : open[i] = "Image"
CodeBlockOpen == \E i \in 1..Len(open) : open[i] = "CodeBlock"

Push(tag) == Append(open, tag)
\* an end event closes the innermost open tag when it is of its kind
Pop(tag) == IF Top = tag THEN SubSeq(open, 1, Len(open) - 1) ELSE open

\* What pulldown-cmark's Parser (lib.rs:96) emits: tags are properly nested,
\* a code block holds text events only and starts outside images, inline
\* content (images included) may nest in an image's alt text.
ParserEmits(kind) ==
    CASE kind = "StartImage" -> ~CodeBlockOpen
      [] kind = "StartCodeBlock" -> ~CodeBlockOpen /\ ~ImageOpen
      [] kind = "StartOther" -> ~CodeBlockOpen
      [] kind = "EndImage" -> Top = "Image"
      [] kind = "EndCodeBlock" -> Top = "CodeBlock"
      [] kind = "EndOther" -> Top = "Other"
      [] kind = "Text" -> TRUE
      [] kind = "Code" -> ~CodeBlockOpen
      [] kind = "Other" -> ~CodeBlockOpen
      [] kind = "End" -> open = <<>>

\* ----------------------------------------------------------------- the pass
\* lib.rs:98-102
Init ==
    /\ speed \in Speeds
    /\ word_count = 0 /\ image_count = 0 /\ code_block_count = 0
    /\ in_code_block = FALSE /\ in_image_alt = FALSE
    /\ pc = "loop"
    /\ total_seconds = 0 /\ formatted = <<>>
    /\ ev = "none" /\ open = <<>> /\ n_events = 0 /\ seen_content = FALSE
    /\ w_text = <<>>

\* one iteration of `for event in parser`, lib.rs:104
Handled(kind, tags, content) ==
    /\ pc = "loop"
    /\ n_events < MaxEvents
    /\ ev' = kind
    /\ open' = tags
    /\ n_events' = n_events + 1
    /\ seen_content' = (seen_content \/ content)
    /\ UNCHANGED <<speed, pc, total_seconds, formatted, w_text>>

\* lib.rs:107-110
StartImage ==
    /\ Handled("StartImage", Push("Image"), TRUE)
    /\ image_count' = image_count + 1
    /\ in_image_alt' = TRUE
    /\ UNCHANGED <<word_count, code_block_count, in_code_block>>

\* lib.rs:111-114
StartCodeBlock ==
    /\ Handled("StartCodeBlock", Push("CodeBlock"), TRUE)
    /\ code_block_count' = code_block_count + 1
    /\ in_code_block' = TRUE
    /\ UNCHANGED <<word_count, image_count, in_image_alt>>

\* lib.rs:115
StartOther ==
    /\ Handled("StartOther", Push("Other"), FALSE)
    /\ UNCHANGED <<word_count, image_count, code_block_count, in_code_block,
                   in_image_alt>>

\* an image end that flips the flag instead of clearing it
EndImage_Toggle ==
    /\ Handled("EndImage", Pop("Image"), FALSE)
    /\ in_image_alt' = ~in_image_alt
    /\ UNCHANGED <<word_count, image_count, code_block_count, in_code_block>>

\* lib.rs:118-120
EndImage ==
    /\ Handled("EndImage", Pop("Image"), FALSE)
    /\ in_image_alt' = FALSE
    /\ UNCHANGED <<word_count, image_count, code_block_count, in_code_block>>

\* lib.rs:121-123
EndCodeBlock ==
    /\ Handled("EndCodeBlock", Pop("CodeBlock"), FALSE)
    /\ in_code_block' = FALSE
    /\ UNCHANGED <<word_count, image_count, code_block_count, in_image_alt>>

\* lib.rs:124
EndOther ==
    /\ Handled("EndOther", Pop("Other"), FALSE)
    /\ UNCHANGED <<word_count, image_count, code_block_count, in_code_block,
                   in_image_alt>>

\* the text arm assigning the span's count instead of adding it
AfterText_Assign(text) ==
    IF ~in_image_alt /\ ~in_code_block
    THEN SpanCount(speed, text)
    ELSE word_count

\* the inline code arm gated like the text arm
AfterCode_GatedByImage(code) ==
    IF ~in_image_alt /\ ~in_code_block
    THEN word_count + SpanCount(speed, code)
    ELSE word_count

\* lib.rs:126-134: word_count after a text event carrying `text`
AfterText(text) ==
    IF ~in_image_alt /\ ~in_code_block
    THEN word_count + SpanCount(speed, text)
    ELSE word_count

\* lib.rs:135-143: word_count after an inline code event carrying `code`
AfterCode(code) ==
    IF ~in_code_block
    THEN word_count + SpanCount(speed, code)
    ELSE word_count

\* lib.rs:126-134
Text(text) ==
    /\ Handled("Text", open, TRUE)
    /\ word_count' = AfterText(text)
    /\ UNCHANGED <<image_count, code_block_count, in_code_block, in_image_alt>>

\* lib.rs:135-143
Code(code) ==
    /\ Handled("Code", open, TRUE)
    /\ word_count' = AfterCode(code)
    /\ UNCHANGED <<image_count, code_block_count, in_code_block, in_image_alt>>

\* lib.rs:144
OtherEvent ==
    /\ Handled("Other", open, FALSE)
    /\ UNCHANGED <<word_count, image_count, code_block_count, in_code_block,
                   in_image_alt>>

\* lib.rs:148-163: the stream has ended; the ReadTime is built
Finish ==
    /\ pc = "loop"
    /\ total_seconds' =
           TotalSeconds(word_count, image_count, code_block_count, speed)
    /\ formatted' = format_time(total_seconds')
    /\ pc' = "done"
    /\ UNCHANGED <<speed, word_count, image_count, code_block_count,
                   in_code_block, in_image_alt, ev, open, n_events,
                   seen_content, w_text>>

\* estimate_with_speed on the streams the parser emits
Next ==
    \/ ParserEmits("StartImage") /\ StartImage
    \/ ParserEmits("StartCodeBlock") /\ StartCodeBlock
    \/ ParserEmits("StartOther") /\ StartOther
    \/ ParserEmits("EndImage") /\ EndImage
    \/ ParserEmits("EndCodeBlock") /\ EndCodeBlock
    \/ ParserEmits("EndOther") /\ EndOther
    \/ \E t \in TextPool : ParserEmits("Text") /\ Text(t)
    \/ \E t \in TextPool : ParserEmits("Code") /\ Code(t)
    \/ ParserEmits("Other") /\ OtherEvent
    \/ ParserEmits("End") /\ Finish

Spec == Init /\ [][Next]_vars

\* the loop body on any event stream, nested or not
NextRaw ==
    \/ StartImage
    \/ StartCodeBlock
    \/ StartOther
    \/ EndImage
    \/ EndCodeBlock
    \/ EndOther
    \/ \E t \in TextPool : Text(t)
    \/ \E t \in TextPool : Code(t)
    \/ OtherEvent
    \/ Finish

SpecRaw == Init /\ [][NextRaw]_vars

\* ------------------------------------------------- runs of the word counters
\* A document of text events outside any image or code block whose last
\* span grows one character at a time.
InitWords ==
    /\ speed \in Speeds
    /\ word_count = 0 /\ image_count = 0 /\ code_block_count = 0
    /\ in_code_block = FALSE /\ in_image_alt = FALSE
    /\ pc = "words"
    /\ total_seconds = 0 /\ formatted = <<>>
    /\ ev = "none" /\ open = <<>> /\ n_events = 0 /\ seen_content = FALSE
    /\ w_text = <<>>

AppendChar(c) ==
    /\ pc = "words"
    /\ Len(w_text) < MaxLen
    /\ w_text' = Append(w_text, c)
    /\ UNCHANGED <<speed, word_count, image_count, code_block_count,
                   in_code_block, in_image_alt, pc, total_seconds, formatted,
                   ev, open, n_events, seen_content>>

\* the text event carrying the span arrives (lib.rs:126-134); the next span
\* starts empty
CommitSpan ==
    /\ pc = "words"
    /\ n_events < MaxSpans
    /\ word_count' = AfterText(w_text)
    /\ ev' = "Text"
    /\ n_events' = n_events + 1
    /\ seen_content' = TRUE
    /\ w_text' = <<>>
    /\ UNCHANGED <<speed, image_count, code_block_count, in_code_block,
                   in_image_alt, pc, total_seconds, formatted, open>>

NextWords == (\E c \in Chars : AppendChar(c)) \/ CommitSpan

SpecWords == InitWords /\ [][NextWords]_vars

\* ------------------------------------------------------ runs of format_time
InitFormat ==
    /\ speed = DefaultSpeed
    /\ word_count = 0 /\ image_count = 0 /\ code_block_count = 0
    /\ in_code_block = FALSE /\ in_image_alt = FALSE
    /\ pc = "format"
    /\ total_seconds \in 0..MaxSeconds
    /\ formatted = <<>>
    /\ ev = "none" /\ open = <<>> /\ n_events = 0 /\ seen_content = FALSE
    /\ w_text = <<>>

\* lib.rs:159
Format ==
    /\ pc = "format"
    /\ formatted' = format_time(total_seconds)
    /\ pc' = "done"
    /\ UNCHANGED <<speed, word_count, image_count, code_block_count,
                   in_code_block, in_image_alt, total_seconds, ev, open,
                   n_events, seen_content, w_text>>

NextFormat == Format

SpecFormat == InitFormat /\ [][NextFormat]_vars

\* ================================================================== claims

\* ---------------------------------------------------------------------- C1
\* C1: a text event between an image start and that image's own end, or
\* between a code block start and its end, adds nothing to word_count, and
\* an inline code event outside any code block adds its span's count.
C1_AltAndBlockTextSkipped ==
    [][\A t \in TextPool :
          /\ (Text(t) /\ (ImageOpen \/ CodeBlockOpen)) => word_count' = word_count
          /\ (Code(t) /\ ~CodeBlockOpen)
                 => word_count' = word_count + SpanCount(speed, t)]_vars

\* ---------------------------------------------------------------------- C2
\* the real-valued weighted sum T, times words_per_minute
WeightedSumTimesWpm ==
    word_count * 60
    + (image_count * speed.seconds_per_image
       + code_block_count * speed.seconds_per_code_block) * speed.words_per_minute

\* C2: total_seconds is the ceiling of T = word_count * 60 / wpm
\* + image_count * seconds_per_image + code_block_count * seconds_per_code_block:
\* total_seconds >= T and total_seconds - T < 1.
C2_CeilingOfWeightedSum ==
    pc = "done" =>
        /\ total_seconds * speed.words_per_minute >= WeightedSumTimesWpm
        /\ (total_seconds - 1) * speed.words_per_minute < WeightedSumTimesWpm

\* ---------------------------------------------------------------------- C3
IsDigit(c) == c \in 48..57
NotDigit(c) == c \notin 48..57

\* the lengths of the longest prefix of digits and of non-digits of s
DigitsLen(s) == Cardinality({i \in 1..Len(s) : \A j \in 1..i : IsDigit(s[j])})
UnitLen(s) == Cardinality({i \in 1..Len(s) : \A j \in 1..i : NotDigit(s[j])})

RECURSIVE DecValue(_)
DecValue(d) ==
    IF d = <<>> THEN 0
    ELSE 10 * DecValue(SubSeq(d, 1, Len(d) - 1)) + (d[Len(d)] - 48)

\* a rendered duration read back: the numbers shown, each with the unit
\* string that follows it
RECURSIVE Groups(_)
Groups(s) ==
    IF s = <<>> THEN <<>>
    ELSE LET k == DigitsLen(s)
             r == SubSeq(s, k + 1, Len(s))
             u == UnitLen(r)
         IN  <<[num |-> DecValue(SubSeq(s, 1, k)), unit |-> SubSeq(r, 1, u)]>>
                 \o Groups(SubSeq(r, u + 1, Len(r)))

SecondsUnit == <<31186>>
MinutesUnit == <<21010, 38047>>
ShortMinutesUnit == <<21010>>

\* the three shapes, with `unit` after the minutes of the third
ShapesWith(unit) ==
    LET m == total_seconds \div 60
        s == total_seconds % 60
        g == Groups(formatted)
    IN  /\ m = 0 => g = <<[num |-> s, unit |-> SecondsUnit]>>
        /\ (m > 0 /\ s = 0) => g = <<[num |-> m, unit |-> MinutesUnit]>>
        /\ (m > 0 /\ s > 0) =>
               g = <<[num |-> m, unit |-> unit], [num |-> s, unit |-> SecondsUnit]>>
        /\ Len(g) \in {1, 2}
        /\ Len(g) = 2 => g[2].num < 60 /\ g[1].num * 60 + g[2].num = total_seconds
        /\ Len(g) = 1 =>
               \/ g[1].unit = SecondsUnit /\ g[1].num = total_seconds /\ g[1].num < 60
               \/ g[1].unit = MinutesUnit /\ g[1].num * 60 = total_seconds

\* C3 as claimed: seconds only when m = 0, minutes only when m > 0 and
\* s = 0, minutes then seconds otherwise, m * 60 + s = total_seconds, and the
\* minutes unit of the minutes-only shape also follows the minutes of the
\* minutes-plus-seconds shape.
C3_SameMinutesUnit == pc = "done" => ShapesWith(MinutesUnit)

\* C3 as amended: the same three shapes and numbers, but the minutes of the
\* minutes-plus-seconds shape are followed by the one-character unit U+5206,
\* not by the two-character unit U+5206 U+949F of the minutes-only shape.
C3_ThreeShapes == pc = "done" => ShapesWith(ShortMinutesUnit)

C3_Witness ==
    /\ pc = "done" /\ formatted # <<>>
    /\ total_seconds \div 60 > 0 /\ total_seconds % 60 > 0

\* ---------------------------------------------------------------------- C4
\* C4: a stream with no text, inline code, image start or code block start
\* yields all counts 0, total_seconds 0 and the rendering "0" U+79D2.
C4_EmptyIsZero ==
    (pc = "done" /\ ~seen_content) =>
        /\ word_count = 0 /\ image_count = 0 /\ code_block_count = 0
        /\ total_seconds = 0
        /\ formatted = <<48>> \o SecondsUnit

C4_Witness == pc = "done" /\ ~seen_content /\ n_events > 1

\* ---------------------------------------------------------------------- C5
\* the word_count of the document read so far, its last text event carrying
\* the span under construction
DocWords == AfterText(w_text)

\* C5: under a fixed speed, appending a character to the last counted span,
\* or appending a further text event, never makes the document's word_count
\* smaller.
C5_Monotonic == [][DocWords' >= DocWords]_vars

C5_Witness ==
    /\ pc = "words" /\ n_events > 0 /\ word_count > 0
    /\ w_text # <<>> /\ ~is_whitespace(w_text[Len(w_text)])
    /\ DocWords > word_count

\* ---------------------------------------------------------------------- C6
HasEmoji(text) == \E i \in 1..Len(text) : is_emoji(text[i])

\* the positions where a whitespace-separated token starts, and the
\* positions of the token that starts at i
TokenStarts(text) ==
    {i \in 1..Len(text) :
        ~is_whitespace(text[i]) /\ (i = 1 \/ is_whitespace(text[i - 1]))}

TokenAt(text, i) ==
    {k \in i..Len(text) : \A j \in i..k : ~is_whitespace(text[j])}

\* what the claim gives a token with emoji counting on
TokenShare(text, i) ==
    LET tok == TokenAt(text, i)
        emojis == {k \in tok : is_emoji(text[k])}
        others == {k \in tok : ~is_emoji(text[k]) /\ ~is_whitespace(text[k])}
    IN  IF emojis = {} THEN 1 ELSE Cardinality(others) + Cardinality(emojis)

\* the sum of the shares over the tokens
ShareSum(text) ==
    Cardinality({p \in TokenStarts(text) \X (1..Len(text)) :
                    p[2] <= TokenShare(text, p[1])})

\* "Hello world! This is a test."  (tests::test_count_english_words)
HelloWorld ==
    <<72, 101, 108, 108, 111, 32, 119, 111, 114, 108, 100, 33, 32, 84, 104,
      105, 115, 32, 105, 115, 32, 97, 32, 116, 101, 115, 116, 46>>

\* C6: count_english_words is the number of tokens with emoji counting off
\* and, with it on, the sum over the tokens of 1 for a token without emoji
\* and of its non-emoji characters plus its emoji characters otherwise.
C6_TokenSum ==
    /\ count_english_words(w_text, FALSE) = Cardinality(TokenStarts(w_text))
    /\ count_english_words(w_text, TRUE) = ShareSum(w_text)
    /\ count_english_words(HelloWorld, TRUE) = 6

\* one token holding emoji and other characters, counted per character
C6_Witness ==
    /\ pc = "words"
    /\ Cardinality(TokenStarts(w_text)) = 1
    /\ HasEmoji(w_text)
    /\ count_english_words(w_text, TRUE) = 3
    /\ count_english_words(w_text, FALSE) = 1

\* ---------------------------------------------------------------------- C7
ControlChars(text) ==
    {i \in 1..Len(text) : is_control(text[i]) /\ ~is_whitespace(text[i])}

CeilDiv(a, b) == (a + b - 1) \div b

\* C8: with whole-number seconds per image and per code block,
\* total_seconds = ceil(word_count * 60 / wpm) + image_count *
\* seconds_per_image + code_block_count * seconds_per_code_block.
C8_ExtrasAddExactly ==
    pc = "done" =>
        total_seconds = CeilDiv(word_count * 60, speed.words_per_minute)
                        + image_count * speed.seconds_per_image
                        + code_block_count * speed.seconds_per_code_block

\* ---------------------------------------------------------------------- C9
\* C9: an image end (code block end) arriving while in_image_alt
\* (in_code_block) is already false leaves that flag false, the other flag
\* and the three counts unchanged, and the loop goes on.
C9_UnmatchedEndIgnored ==
    [][/\ (ev' = "EndImage" /\ n_events' = n_events + 1 /\ ~in_image_alt) =>
              /\ in_image_alt' = FALSE /\ pc' = "loop"
              /\ UNCHANGED <<in_code_block, word_count, image_count,
                             code_block_count>>
       /\ (ev' = "EndCodeBlock" /\ n_events' = n_events + 1 /\ ~in_code_block) =>
              /\ in_code_block' = FALSE /\ pc' = "loop"
              /\ UNCHANGED <<in_image_alt, word_count, image_count,
                             code_block_count>>]_vars

\* the first event of the stream is an image end: no image was started
C9_Witness ==
    /\ pc = "loop" /\ ev = "EndImage" /\ n_events = 1
    /\ ~in_image_alt /\ image_count = 0

\* --------------------------------------------------------------------- C10
\* C10: while in_image_alt is true and in_code_block is false, an inline
\* code event adds its span's count to word_count and a text event adds
\* nothing.
C10_CodeNotGatedByImage ==
    [][(in_image_alt /\ ~in_code_block) =>
           \A t \in TextPool :
               /\ Code(t) => word_count' = word_count + SpanCount(speed, t)
               /\ Text(t) => word_count' = word_count]_vars

C10_Witness ==
    /\ ev = "Code" /\ n_events = 2 /\ in_image_alt /\ ~in_code_block
    /\ image_count = 1 /\ word_count > 0

====
